---- MODULE Spec2Model ----
(***************************************************************************)
(* Model of the RAG question-answering service (ghanshyamca/ai_rag).       *)
(*                                                                         *)
(* The service facade (api.py) is a FastAPI application whose path         *)
(* operations are all declared `async def` and contain no `await`: every   *)
(* call they make (crawler, text processor, vector store, OpenAI client,   *)
(* time.sleep) is a blocking call.  The single event loop of the process   *)
(* therefore runs one handler from its first line to its response before   *)
(* it can start another one; requests that come in meanwhile wait in the   *)
(* server.  The model keeps the handlers' steps separate (so that the      *)
(* order of the stages and the partial states of the index are visible)    *)
(* and lets the event loop start a handler only when no handler is         *)
(* running (CanDispatch).                                                  *)
(***************************************************************************)
EXTENDS Integers, Sequences, FiniteSets, TLC

(***************************************************************************)
(* Bounds of the model.                                                    *)
(***************************************************************************)
MaxReqs == 2            \* requests the server holds at one time
MaxTime == 3            \* handlers the event loop starts in one behaviour
MaxChunksPerPage == 2   \* chunks chunk_text yields for one page, at most
BatchSize == 2          \* batch_size of add_documents, scaled down from 100
MaxTopK == 3            \* top_k of a question, scaled down from 1..10
MaxSim == 2             \* similarity scores are drawn from 1..MaxSim

Reqs == 1..MaxReqs
Urls == {"u1", "u2"}    \* URLs of the pages a crawl can collect
ErrMsgs == {"e1"}       \* str(e) of the exceptions external calls raise
NoErr == "none"         \* no exception
NoneVal == [pages_crawled |-> -1, chunks_created |-> -1,
            embeddings_generated |-> -1]   \* Python None for last_result

VARIABLES
    req,            \* per request: kind, position in its handler, locals,
                    \* response (and history fields used by the properties)
    is_crawling,    \* crawl_status["is_crawling"]
    last_crawl,     \* crawl_status["last_crawl"] (0 is None)
    last_result,    \* crawl_status["last_result"]
    collection,     \* vector_store.collection: the set of indexed vectors
    now,            \* time.time(), a logical clock
    crawler,        \* a WebCrawler object and the locals of its crawl()
    chunker,        \* a TextProcessor object and the locals of chunk_text()
    reindex         \* a VectorStore that is cleared and refilled twice

vars == <<req, is_crawling, last_crawl, last_result, collection, now,
          crawler, chunker, reindex>>

\* The variables of the service facade, and those of the components that
\* are run on their own.
service == <<req, is_crawling, last_crawl, last_result, collection, now>>
components == <<crawler, chunker, reindex>>

\* A component that is not under study in a specification.
Idle == [pc |-> "idle"]

----------------------------------------------------------------------------
(***************************************************************************)
(* Helpers on sequences.                                                   *)
(***************************************************************************)
Min(a, b) == IF a < b THEN a ELSE b

\* The injective sequences over S of length n.
InjSeqs(S, n) ==
    {s \in [1..n -> S] : \A a, b \in 1..n : a # b => s[a] # s[b]}

\* Python's seq[i:j] for 0 <= i <= j (0-based, end exclusive, clipped).
Slice(s, i, j) == SubSeq(s, i + 1, Min(j, Len(s)))

----------------------------------------------------------------------------
(***************************************************************************)
(* Text processor: process_documents stamps the chunks of each page with   *)
(* url, chunk_id (0-based) and total_chunks; a page that yields no chunk   *)
(* contributes nothing.  counts[k] is the number of chunks chunk_text      *)
(* yields for pages[k].                                                    *)
(***************************************************************************)
\* The chunks of a page are numbered from 1.
PageChunks_FromOne(url, n) ==
    [k \in 1..n |-> [url |-> url, chunk_id |-> k, total_chunks |-> n]]

\* for i, chunk in enumerate(chunks): the chunks of one page, stamped.
PageChunks(url, n) ==
    [k \in 1..n |-> [url |-> url, chunk_id |-> k - 1, total_chunks |-> n]]

RECURSIVE process_documents(_, _)
process_documents(pages, counts) ==
    IF pages = <<>> THEN <<>>
    ELSE PageChunks(Head(pages), Head(counts))
            \o process_documents(Tail(pages), Tail(counts))

(***************************************************************************)
(* Vector store.  A vector is identified by the id add_documents builds    *)
(* from url and chunk_id; owner (history) is the time at which the request *)
(* that wrote it was started.                                              *)
(***************************************************************************)
ChunkId(c) == <<c.url, c.chunk_id>>

Vector(c, t) == [id |-> ChunkId(c), url |-> c.url, chunk_id |-> c.chunk_id,
                 owner |-> t]

Ids(coll) == {v.id : v \in coll}

\* collection.add: the vectors of the batch whose id is not yet present.
CollectionAdd(coll, batch, t) ==
    coll \cup {v \in {Vector(batch[k], t) : k \in 1..Len(batch)} :
                  v.id \notin Ids(coll)}

get_collection_count(coll) == Cardinality(coll)

\* The collection is left as it is.
clear_collection_Keeps(coll) == coll

\* clear_collection: delete the collection and create it again, empty.
clear_collection(coll) == {}

----------------------------------------------------------------------------
(***************************************************************************)
(* Requests.                                                               *)
(***************************************************************************)
NoRetrieval == [count |-> 0, items |-> <<>>, error |-> NoErr]
NoResult == [success |-> FALSE, answer |-> [kind |-> "none", msg |-> NoErr],
             sources |-> <<>>, num_chunks_used |-> 0]

NewReq ==
    [kind |-> "none", pc |-> "new", start |-> 0, status |-> 0,
     exit |-> "none", success |-> FALSE,
     \* locals of crawl_and_index
     pages_data |-> <<>>, chunks |-> <<>>, i |-> 0,
     \* locals of ask_question / generate_answer
     retrieval |-> NoRetrieval, result |-> NoResult,
     \* history
     sawFlag |-> FALSE, duringFlight |-> FALSE, trace |-> <<>>,
     failedBatch |-> 0, embedded |-> 0, inserted |-> 0,
     emptyAtCheck |-> FALSE, calls |-> {}, raised |-> NoErr, raisedIn |-> "none",
     indexBefore |-> {}]

\* The handlers that have started and have not produced their response.
Running == {r \in Reqs : req[r].pc \notin {"new", "pending", "done"}}

\* The ingestion pipelines that are executing: accepted POST /crawl handlers
\* between the setting of the flag and their response.
PipelineStages == {"crawl", "chunk", "clear", "upsert", "finish"}
InFlight == {r \in Reqs : req[r].pc \in PipelineStages}

\* The locals of a handler and its response are gone once the response has
\* been sent: the model keeps them until the event loop starts the next
\* handler, and then the place of the request is free for a new request.
Forget(q) == IF q.pc = "done" THEN NewReq ELSE q

Init ==
    /\ req = [r \in Reqs |-> NewReq]
    /\ is_crawling = FALSE
    /\ last_crawl = 0
    /\ last_result = NoneVal
    /\ collection = {}
    /\ now = 0
    /\ crawler = Idle
    /\ chunker = Idle
    /\ reindex = Idle

\* A client issues a request; it waits in the server until the event loop
\* runs its handler.
Issue(r, k) ==
    /\ req[r].pc = "new"
    /\ \A q \in Reqs : q < r => req[q].pc # "new"
    /\ req' = [req EXCEPT ![r].kind = k, ![r].pc = "pending",
                          ![r].duringFlight = (InFlight # {})]
    /\ UNCHANGED <<is_crawling, last_crawl, last_result, collection, now>>
    /\ UNCHANGED components

----------------------------------------------------------------------------
(***************************************************************************)
(* POST /crawl: crawl_and_index.                                           *)
(***************************************************************************)
\* Handlers run in a pool of threads (path operations declared with def): a
\* handler starts whatever the others are doing.
CanDispatch_Threads == TRUE

\* The event loop starts a handler only when it is not inside another one:
\* the handlers are coroutines without any await.
CanDispatch == Running = {}

\* The index is cleared before the crawl, not after the chunking.
StageAfter_ClearFirst(stage) ==
    CASE stage = "set"    -> "clear"
      [] stage = "clear"  -> "crawl"
      [] stage = "crawl"  -> "chunk"
      [] stage = "chunk"  -> "upsert"
      [] stage = "upsert" -> "finish"

\* The index is not cleared: add_documents follows the chunking.
StageAfter_NoClear(stage) ==
    CASE stage = "set"    -> "crawl"
      [] stage = "crawl"  -> "chunk"
      [] stage = "chunk"  -> "upsert"
      [] stage = "clear"  -> "upsert"
      [] stage = "upsert" -> "finish"

\* The order of the statements of crawl_and_index: what follows each stage
\* when the stage neither returns nor raises.
StageAfter(stage) ==
    CASE stage = "set"    -> "crawl"
      [] stage = "crawl"  -> "chunk"
      [] stage = "chunk"  -> "clear"
      [] stage = "clear"  -> "upsert"
      [] stage = "upsert" -> "finish"

\* The early return on an empty chunk list forgets to reset the flag.
FlagOnExit_NoChunksLeak(path) == path = "no_chunks"

\* The value crawl_and_index gives to is_crawling on each of its exits
\* ("no_pages", "no_chunks", "success", "exception").
FlagOnExit(path) == FALSE

\* add_documents logs the exception of a failed batch and goes on.
BatchErrorPropagates_Swallowed == FALSE

\* add_documents re-raises the exception of a failed batch.
BatchErrorPropagates == TRUE

\* The response of a handler.
Respond(q, status, exit, success) ==
    [q EXCEPT !.pc = "done", !.status = status, !.exit = exit,
              !.success = success]

\* except Exception as e: ... raise HTTPException(status_code=500, ...)
ExceptExit(q, e, stage) ==
    [Respond(q, 500, "exception", FALSE) EXCEPT !.raised = e,
                                                !.raisedIn = stage]

\* Lines 208-215: the handler starts and reads the flag.
CrawlCheck(r) ==
    /\ req[r].kind = "crawl"
    /\ req[r].pc = "pending"
    /\ CanDispatch
    /\ now < MaxTime
    /\ now' = now + 1
    /\ LET started == [q \in Reqs |-> Forget(req[q])]
       IN
       IF is_crawling
         THEN req' = [started EXCEPT ![r] =
                        [Respond(@, 409, "conflict", FALSE)
                            EXCEPT !.start = now', !.sawFlag = TRUE]]
         ELSE req' = [started EXCEPT ![r].start = now', ![r].pc = "set",
                                     ![r].indexBefore = collection]
    /\ UNCHANGED <<is_crawling, last_crawl, last_result, collection>>
    /\ UNCHANGED components

\* Line 218: the flag is set.
CrawlSet(r) ==
    /\ req[r].pc = "set"
    /\ is_crawling' = TRUE
    /\ req' = [req EXCEPT ![r].pc = StageAfter("set")]
    /\ UNCHANGED <<last_crawl, last_result, collection, now>>
    /\ UNCHANGED components

\* Lines 223-240: WebCrawler(...).crawl() returns the collected pages, whose
\* URLs are pairwise distinct, or raises.
CrawlRun(r) ==
    /\ req[r].pc = "crawl"
    /\ \/ \E e \in ErrMsgs :
            /\ req' = [req EXCEPT ![r] =
                        ExceptExit([@ EXCEPT !.trace = Append(@, "crawl")],
                                   e, "crawl")]
            /\ is_crawling' = FlagOnExit("exception")
       \/ /\ req' = [req EXCEPT ![r] =
                        Respond([@ EXCEPT !.trace = Append(@, "crawl")],
                                200, "no_pages", FALSE)]
          /\ is_crawling' = FlagOnExit("no_pages")
       \/ \E n \in 1..Cardinality(Urls) : \E pages \in InjSeqs(Urls, n) :
            /\ req' = [req EXCEPT ![r].trace = Append(@, "crawl"),
                                  ![r].pages_data = pages,
                                  ![r].pc = StageAfter("crawl")]
            /\ UNCHANGED is_crawling
    /\ UNCHANGED <<last_crawl, last_result, collection, now>>
    /\ UNCHANGED components

\* Lines 242-260: TextProcessor(...).process_documents(pages_data).
CrawlChunk(r) ==
    /\ req[r].pc = "chunk"
    /\ \/ \E e \in ErrMsgs :
            /\ req' = [req EXCEPT ![r] =
                        ExceptExit([@ EXCEPT !.trace = Append(@, "chunk")],
                                   e, "chunk")]
            /\ is_crawling' = FlagOnExit("exception")
       \/ \E counts \in [1..Len(req[r].pages_data) -> 0..MaxChunksPerPage] :
            LET chunks == process_documents(req[r].pages_data, counts) IN
            IF chunks = <<>>
              THEN /\ req' = [req EXCEPT ![r] =
                          Respond([@ EXCEPT !.trace = Append(@, "chunk")],
                                  200, "no_chunks", FALSE)]
                   /\ is_crawling' = FlagOnExit("no_chunks")
              ELSE /\ req' = [req EXCEPT ![r].trace = Append(@, "chunk"),
                                         ![r].chunks = chunks,
                                         ![r].pc = StageAfter("chunk")]
                   /\ UNCHANGED is_crawling
    /\ UNCHANGED <<last_crawl, last_result, collection, now>>
    /\ UNCHANGED components

\* Lines 266-267: vector_store.clear_collection().  The deletion or the
\* re-creation of the collection can fail.
CrawlClear(r) ==
    /\ req[r].pc = "clear"
    /\ \/ /\ collection' = clear_collection(collection)
          /\ req' = [req EXCEPT ![r].trace = Append(@, "clear"),
                                ![r].i = 0,
                                ![r].pc = StageAfter("clear")]
          /\ UNCHANGED is_crawling
       \/ \E e \in ErrMsgs :
            /\ collection' \in {collection, clear_collection(collection)}
            /\ req' = [req EXCEPT ![r] =
                        ExceptExit([@ EXCEPT !.trace = Append(@, "clear")],
                                   e, "clear")]
            /\ is_crawling' = FlagOnExit("exception")
    /\ UNCHANGED <<last_crawl, last_result, now>>
    /\ UNCHANGED components

\* Lines 269-270: vector_store.add_documents(chunks, batch_size): one step
\* is one iteration of its loop over the batches (or the end of the loop).
CrawlUpsert(r) ==
    /\ req[r].pc = "upsert"
    /\ LET total_chunks == Len(req[r].chunks)
           i == req[r].i
           batch == Slice(req[r].chunks, i, i + BatchSize)
           batch_num == (i \div BatchSize) + 1
           traced == [req[r] EXCEPT !.trace = Append(@, "upsert")]
       IN
       IF i >= total_chunks
         THEN /\ req' = [req EXCEPT ![r].pc = StageAfter("upsert")]
              /\ UNCHANGED <<collection, is_crawling>>
         ELSE
           \/ /\ collection' = CollectionAdd(collection, batch, req[r].start)
              /\ req' = [req EXCEPT ![r] =
                            [traced EXCEPT !.i = i + BatchSize,
                                           !.embedded = @ + 1,
                                           !.inserted = @ + 1]]
              /\ UNCHANGED is_crawling
           \/ \E e \in ErrMsgs : \E embedOk \in BOOLEAN :
                LET failed == [traced EXCEPT
                                 !.embedded = IF embedOk THEN @ + 1 ELSE @,
                                 !.failedBatch =
                                    IF @ = 0 THEN batch_num ELSE @]
                IN
                /\ UNCHANGED collection
                /\ IF BatchErrorPropagates
                     THEN /\ req' = [req EXCEPT ![r] =
                                        ExceptExit(failed, e, "upsert")]
                          /\ is_crawling' = FlagOnExit("exception")
                     ELSE /\ req' = [req EXCEPT ![r] =
                                        [failed EXCEPT !.i = i + BatchSize]]
                          /\ UNCHANGED is_crawling
    /\ UNCHANGED <<last_crawl, last_result, now>>
    /\ UNCHANGED components

\* Lines 272-293: the status is updated and the success response returned.
CrawlFinish(r) ==
    /\ req[r].pc = "finish"
    /\ is_crawling' = FlagOnExit("success")
    /\ last_crawl' = now
    /\ last_result' = [pages_crawled |-> Len(req[r].pages_data),
                       chunks_created |-> Len(req[r].chunks),
                       embeddings_generated |-> Len(req[r].chunks)]
    /\ req' = [req EXCEPT ![r] = Respond(@, 200, "success", TRUE)]
    /\ UNCHANGED <<collection, now>>
    /\ UNCHANGED components

----------------------------------------------------------------------------
(***************************************************************************)
(* Answer generator: RAGPipeline.retrieve and generate_answer.             *)
(***************************************************************************)
\* What VectorStore.search does: it embeds the query and asks the index for
\* the top_k nearest vectors, which come back nearest first; either call
\* can raise.  An item is the metadata of a vector and its similarity.
SimSeqs(n) ==
    {s \in [1..n -> 1..MaxSim] : \A k \in 1..n : k > 1 => s[k - 1] >= s[k]}

SearchResults(coll, top_k) ==
    UNION {
      {[k \in 1..n |-> [url |-> vs[k].url, chunk_id |-> vs[k].chunk_id,
                        similarity |-> sims[k]]] :
          vs \in InjSeqs(coll, n), sims \in SimSeqs(n)} :
      n \in 0..Min(top_k, get_collection_count(coll))}

\* retrieve: the results of search or, when search raises, an empty result
\* that carries the error.
retrieve(items, err) ==
    IF err = NoErr
      THEN [count |-> Len(items), items |-> items, error |-> NoErr]
      ELSE [count |-> 0, items |-> <<>>, error |-> err]

\* The test of the result count is missing.
NoResults_Never(retrieval) == FALSE

\* if retrieval_results['count'] == 0
NoResults(retrieval) == retrieval.count = 0

\* The loop without the test of seen_urls: one source per retrieved chunk.
RECURSIVE BuildSources_NoDedup(_, _, _)
BuildSources_NoDedup(items, seen_urls, sources) ==
    IF items = <<>> THEN sources
    ELSE LET it == Head(items) IN
         BuildSources_NoDedup(Tail(items), seen_urls \cup {it.url},
             Append(sources, [url |-> it.url,
                              relevance_score |-> it.similarity,
                              chunk_id |-> it.chunk_id]))

\* Step 4 of generate_answer: the loop over zip(metadatas, similarities)
\* that fills sources and seen_urls.
RECURSIVE BuildSources(_, _, _)
BuildSources(items, seen_urls, sources) ==
    IF items = <<>> THEN sources
    ELSE LET it == Head(items) IN
         IF it.url \notin seen_urls
           THEN BuildSources(Tail(items), seen_urls \cup {it.url},
                    Append(sources, [url |-> it.url,
                                     relevance_score |-> it.similarity,
                                     chunk_id |-> it.chunk_id]))
           ELSE BuildSources(Tail(items), seen_urls, sources)

\* The three results generate_answer returns.
NoInfoResult ==
    [success |-> FALSE, answer |-> [kind |-> "no_information", msg |-> NoErr],
     sources |-> <<>>, num_chunks_used |-> 0]

ErrorResult(e) ==
    [success |-> FALSE, answer |-> [kind |-> "error", msg |-> e],
     sources |-> <<>>, num_chunks_used |-> 0]

AnswerResult(items) ==
    [success |-> TRUE, answer |-> [kind |-> "llm", msg |-> NoErr],
     sources |-> BuildSources(items, {}, <<>>),
     num_chunks_used |-> Len(items)]

----------------------------------------------------------------------------
(***************************************************************************)
(* POST /ask: ask_question.                                                *)
(***************************************************************************)
\* The test of the index count is missing.
IndexEmpty_Never(coll) == FALSE

\* if vector_store.get_collection_count() == 0
IndexEmpty(coll) == get_collection_count(coll) = 0

\* Lines 317-324: the handler starts and checks that the index has data.
AskCheck(r) ==
    /\ req[r].kind = "ask"
    /\ req[r].pc = "pending"
    /\ CanDispatch
    /\ now < MaxTime
    /\ now' = now + 1
    /\ LET started == [q \in Reqs |-> Forget(req[q])]
           seen == [started EXCEPT ![r].start = now',
                                   ![r].emptyAtCheck =
                                (get_collection_count(collection) = 0)]
       IN
       IF IndexEmpty(collection)
         THEN req' = [seen EXCEPT ![r] =
                        Respond(@, 503, "empty_kb", FALSE)]
         ELSE req' = [seen EXCEPT ![r].pc = "retrieve"]
    /\ UNCHANGED <<is_crawling, last_crawl, last_result, collection>>
    /\ UNCHANGED components

\* generate_answer, lines 176-191: retrieve, and the return on no result.
AskRetrieve(r) ==
    /\ req[r].pc = "retrieve"
    /\ \E top_k \in 1..MaxTopK :
         \/ \E items \in SearchResults(collection, top_k) :
              LET retrieval == retrieve(items, NoErr)
                  q == [req[r] EXCEPT !.retrieval = retrieval,
                                      !.calls = @ \cup {"embed", "query"}]
              IN
              req' = [req EXCEPT ![r] =
                        IF NoResults(retrieval)
                          THEN [Respond(q, 200, "answered", FALSE)
                                   EXCEPT !.result = NoInfoResult]
                          ELSE [q EXCEPT !.pc = "generate"]]
         \/ \E e \in ErrMsgs : \E embedOk \in BOOLEAN :
              LET retrieval == retrieve(<<>>, e)
                  q == [req[r] EXCEPT
                          !.retrieval = retrieval,
                          !.raised = e, !.raisedIn = "retrieve",
                          !.calls = @ \cup (IF embedOk
                                              THEN {"embed", "query"}
                                              ELSE {"embed"})]
              IN
              req' = [req EXCEPT ![r] =
                        IF NoResults(retrieval)
                          THEN [Respond(q, 200, "answered", FALSE)
                                   EXCEPT !.result = NoInfoResult]
                          ELSE [q EXCEPT !.pc = "generate"]]
    /\ UNCHANGED <<is_crawling, last_crawl, last_result, collection, now>>
    /\ UNCHANGED components

\* generate_answer, lines 193-279: the prompt, the call of the language
\* model, the sources; an exception gives the error result.
AskGenerate(r) ==
    /\ req[r].pc = "generate"
    /\ \/ \E e \in ErrMsgs : \E promptOk \in BOOLEAN :
            req' = [req EXCEPT ![r] =
                      [Respond(@, 200, "answered", FALSE) EXCEPT
                          !.result = ErrorResult(e),
                          !.raised = e,
                          !.raisedIn = IF promptOk THEN "llm" ELSE "prompt",
                          !.calls = IF promptOk THEN @ \cup {"llm"} ELSE @]]
       \/ req' = [req EXCEPT ![r] =
                    [Respond(@, 200, "answered", TRUE) EXCEPT
                        !.result = AnswerResult(req[r].retrieval.items),
                        !.calls = @ \cup {"llm"}]]
    /\ UNCHANGED <<is_crawling, last_crawl, last_result, collection, now>>
    /\ UNCHANGED components

----------------------------------------------------------------------------
(***************************************************************************)
(* GET /stats and GET /crawl/status: what the two handlers return of the   *)
(* status of the ingestion.  They read the state and change nothing.       *)
(***************************************************************************)
get_stats ==
    [total_documents |-> get_collection_count(collection),
     is_crawling |-> is_crawling,
     last_crawl |-> last_result]

get_crawl_status ==
    [is_crawling |-> is_crawling,
     last_crawl_time |-> last_crawl,
     last_result |-> last_result]

----------------------------------------------------------------------------
Next ==
    \/ \E r \in Reqs : \E k \in {"crawl", "ask"} : Issue(r, k)
    \/ \E r \in Reqs : CrawlCheck(r)
    \/ \E r \in Reqs : CrawlSet(r)
    \/ \E r \in Reqs : CrawlRun(r)
    \/ \E r \in Reqs : CrawlChunk(r)
    \/ \E r \in Reqs : CrawlClear(r)
    \/ \E r \in Reqs : CrawlUpsert(r)
    \/ \E r \in Reqs : CrawlFinish(r)
    \/ \E r \in Reqs : AskCheck(r)
    \/ \E r \in Reqs : AskRetrieve(r)
    \/ \E r \in Reqs : AskGenerate(r)

Spec == Init /\ [][Next]_vars

----------------------------------------------------------------------------
(***************************************************************************)
(* Crawler: WebCrawler (crawler.py).                                       *)
(*                                                                         *)
(* A URL is the record of the parts of its string: scheme, netloc, path,   *)
(* whether the string has a trailing "/" and its fragment ("" when the     *)
(* string has no "#", "#" for a bare "#", "#sec" for a named one).  Two    *)
(* URLs are the same string exactly when the records are equal.            *)
(***************************************************************************)
MaxPagesBound == 3      \* max_pages is drawn from 1..MaxPagesBound
MinContent == 100       \* a page is kept when its text is longer than this

Url(scheme, netloc, path, slash, frag) ==
    [scheme |-> scheme, netloc |-> netloc, path |-> path, slash |-> slash,
     frag |-> frag]

SiteRoot == Url("https", "site", "", FALSE, "")
SiteRootSlash == Url("https", "site", "", TRUE, "")
BaseUrls == {SiteRoot, SiteRootSlash}
NoUrl == Url("", "", "", FALSE, "")

\* The href attributes of the anchors of a page: prefix is the leading
\* "javascript:", "mailto:", "tel:" or "#" of the attribute ("" when it has
\* none of them) and url is what urljoin makes of an attribute that is not
\* a bare fragment.
Href(prefix, url) == [prefix |-> prefix, url |-> url]

\* The anchors that the pages of the site are made of, in the order in
\* which soup.find_all('a', href=True) meets them in a page.
Anchors ==
    << Href("", Url("https", "other", "a", FALSE, "")),
       Href("mailto:", Url("mailto", "", "x", FALSE, "")),
       Href("#", NoUrl),
       Href("", Url("https", "site", "a", FALSE, "")),
       Href("", Url("https", "site", "a", TRUE, "")),
       Href("", Url("https", "site", "b", FALSE, "#sec")),
       Href("", Url("https", "site", "f.pdf", FALSE, "")),
       Href("", Url("https", "site", "", TRUE, "")) >>

Hrefs == {Anchors[k] : k \in 1..Len(Anchors)}

SkippedPrefixes == {"javascript:", "mailto:", "tel:", "#"}
BinaryPaths == {"f.pdf"}

\* urljoin(current_url, href)
urljoin(current_url, href) ==
    IF href.prefix = "#" THEN [current_url EXCEPT !.frag = "#sec"]
    ELSE href.url

\* absolute_url.split('#')[0]
StripFragment(url) == [url EXCEPT !.frag = ""]

\* absolute_url.rstrip('/')
RStripSlash(url) == IF url.frag = "" THEN [url EXCEPT !.slash = FALSE] ELSE url

\* any(url.lower().endswith(ext) for ext in skip_extensions)
HasSkippedExtension(url) ==
    url.path \in BinaryPaths /\ ~url.slash /\ url.frag = ""

\* The test without the comparison of the domain.
is_valid_url_AnyDomain(url, domain, visited_urls) ==
    /\ ~HasSkippedExtension(url)
    /\ url.scheme \in {"http", "https"}
    /\ url \notin visited_urls
    /\ url.frag # "#"

\* is_valid_url: same domain, http or https, not visited, no file to skip.
is_valid_url(url, domain, visited_urls) ==
    /\ ~HasSkippedExtension(url)
    /\ url.netloc = domain
    /\ url.scheme \in {"http", "https"}
    /\ url \notin visited_urls
    /\ url.frag # "#"

\* extract_links: the set of which list(set(links)) is a list, in an order
\* that the hashes of the strings decide.
extract_links(hrefs, current_url, domain, visited_urls) ==
    {u \in {RStripSlash(StripFragment(urljoin(current_url, h))) :
                h \in {g \in hrefs : g.prefix \notin SkippedPrefixes}} :
        is_valid_url(u, domain, visited_urls)}

SetMin(S) == CHOOSE x \in S : \A y \in S : x <= y

\* Lines 221-239: the valid links of a page in the order in which the loop
\* over its anchors appends them to links, each at its first occurrence.
LinkOf(href, current_url) == RStripSlash(StripFragment(urljoin(current_url, href)))
FoundAt(link, hrefs, current_url) ==
    SetMin({k \in 1..Len(Anchors) :
            /\ Anchors[k] \in hrefs
            /\ Anchors[k].prefix \notin SkippedPrefixes
            /\ LinkOf(Anchors[k], current_url) = link})
InDiscoveryOrder(list, hrefs, current_url) ==
    \A a, b \in 1..Len(list) :
        a < b => FoundAt(list[a], hrefs, current_url)
                    < FoundAt(list[b], hrefs, current_url)

\* The set of the elements of a sequence, and the lists of a set.
Elems(s) == {s[k] : k \in 1..Len(s)}
ListsOf(S) == InjSeqs(S, Cardinality(S))

\* The loop of crawl goes on whatever the number of visited pages.
LoopGuard_NoBudget(urls_to_visit, visited_urls, max_pages) ==
    urls_to_visit # <<>>

\* while urls_to_visit and len(self.visited_urls) < self.max_pages
LoopGuard(urls_to_visit, visited_urls, max_pages) ==
    urls_to_visit # <<>> /\ Cardinality(visited_urls) < max_pages

\* The head of the frontier is read and left in place.
PopFirst_Peek(urls_to_visit) == urls_to_visit

\* urls_to_visit.pop(0): what is left of the frontier.
PopFirst(urls_to_visit) == Tail(urls_to_visit)

\* A page is kept when its text has MinContent characters or more.
KeepPage_AtLeast(content_length) == content_length >= MinContent

\* Lines 324-326: if page_data and page_data['content'], and
\* len(page_data['content']) > 100.
KeepPage(content_length) == content_length > MinContent

\* A link is added whether or not the frontier has it.
FreshLinks_Requeue(links, visited_urls, urls_to_visit) ==
    {l \in links : l \notin visited_urls}

\* Line 339: link not in self.visited_urls and link not in urls_to_visit.
FreshLinks(links, visited_urls, urls_to_visit) ==
    {l \in links : l \notin visited_urls /\ l \notin Elems(urls_to_visit)}

\* crawl_page lets the exception of a failed request out.
FetchErrorCaught_Raised == FALSE

\* crawl_page catches RequestException and Exception and returns None.
FetchErrorCaught == TRUE

\* if urls_to_visit: time.sleep(self.delay)
DelayGuard(urls_to_visit) == urls_to_visit # <<>>

\* The events of a crawl that the properties look at.
FetchEvent(url) == [ev |-> "fetch", url |-> url]
SleepEvent == [ev |-> "sleep", url |-> NoUrl]

\* WebCrawler(base_url, max_pages, delay), before crawl() is called.
WebCrawler(base_url, max_pages) ==
    [pc |-> "start", base_url |-> base_url, max_pages |-> max_pages,
     domain |-> base_url.netloc, visited_urls |-> {}, pages_crawled |-> 0,
     \* locals of crawl
     pages_data |-> <<>>, urls_to_visit |-> <<>>, url |-> NoUrl,
     content_length |-> -1,
     \* history
     log |-> <<>>, failed |-> {}, raised |-> FALSE, dequeuedAt |-> -1,
     hrefs |-> {}, before |-> <<>>, linksOf |-> NoUrl,
     skipped |-> FALSE, crawled |-> <<>>]

InitCrawler ==
    /\ req = [r \in Reqs |-> NewReq]
    /\ is_crawling = FALSE
    /\ last_crawl = 0
    /\ last_result = NoneVal
    /\ collection = {}
    /\ now = 0
    /\ crawler \in {WebCrawler(b, m) : b \in BaseUrls, m \in 1..MaxPagesBound}
    /\ chunker = Idle
    /\ reindex = Idle

\* Lines 307-308: pages_data = [], urls_to_visit = [self.base_url].
CrawlerBegin ==
    /\ crawler.pc = "start"
    /\ crawler' = [crawler EXCEPT !.pc = "loop",
                                  !.pages_data = <<>>,
                                  !.urls_to_visit = <<crawler.base_url>>]
    /\ UNCHANGED service
    /\ UNCHANGED <<chunker, reindex>>

\* Lines 313-320: the test of the loop holds; the head of the frontier is
\* taken and, unless it has been visited, marked as visited.
CrawlerDequeue ==
    /\ crawler.pc = "loop"
    /\ LoopGuard(crawler.urls_to_visit, crawler.visited_urls,
                 crawler.max_pages)
    /\ LET url == Head(crawler.urls_to_visit)
           popped == [crawler EXCEPT !.urls_to_visit = PopFirst(@),
                                     !.url = url,
                                     !.hrefs = {}, !.before = <<>>,
                                     !.linksOf = NoUrl]
       IN
       IF url \in crawler.visited_urls
         THEN crawler' = [popped EXCEPT !.skipped = TRUE]
         ELSE crawler' = [popped EXCEPT
                            !.visited_urls = @ \cup {url},
                            !.dequeuedAt = Cardinality(crawler.visited_urls),
                            !.pc = "fetch"]
    /\ UNCHANGED service
    /\ UNCHANGED <<chunker, reindex>>

\* Lines 321-326 and crawl_page: the page is requested.  The request fails
\* (network error, status that is not 2xx, content that is not HTML, any
\* other exception) or gives a text of some length; a text of more than
\* MinContent characters is kept.
CrawlerFetch ==
    /\ crawler.pc = "fetch"
    /\ LET url == crawler.url
           fetched == [crawler EXCEPT !.log = Append(@, FetchEvent(url)),
                                      !.crawled = Append(@, url)]
       IN
       \/ IF FetchErrorCaught
            THEN crawler' = [fetched EXCEPT !.failed = @ \cup {url},
                                            !.content_length = -1,
                                            !.pc = "delay"]
            ELSE crawler' = [fetched EXCEPT !.failed = @ \cup {url},
                                            !.raised = TRUE,
                                            !.pc = "done"]
       \/ \E n \in {0, MinContent, MinContent + 1} :
            LET page == [fetched EXCEPT !.pages_crawled = @ + 1,
                                        !.content_length = n]
            IN
            IF KeepPage(n)
              THEN crawler' = [page EXCEPT
                                 !.pages_data = Append(@,
                                    [url |-> url, content_length |-> n]),
                                 !.pc = "links"]
              ELSE crawler' = [page EXCEPT !.pc = "delay"]
    /\ UNCHANGED service
    /\ UNCHANGED <<chunker, reindex>>

\* Lines 328-343: the page that was kept is requested once more and its
\* links are added to the frontier, unless the request raises.
CrawlerLinks ==
    /\ crawler.pc = "links"
    /\ LET url == crawler.url
           fetched == [crawler EXCEPT !.log = Append(@, FetchEvent(url)),
                                      !.pc = "delay"]
       IN
       \/ crawler' = fetched
       \/ \E hrefs \in SUBSET Hrefs :
            LET links == extract_links(hrefs, url, crawler.domain,
                                       crawler.visited_urls)
                fresh == FreshLinks(links, crawler.visited_urls,
                                    crawler.urls_to_visit)
            IN
            \E new_links \in ListsOf(fresh) :
                crawler' = [fetched EXCEPT
                              !.urls_to_visit = @ \o new_links,
                              !.hrefs = hrefs,
                              !.before = crawler.urls_to_visit,
                              !.linksOf = url]
    /\ UNCHANGED service
    /\ UNCHANGED <<chunker, reindex>>

\* Lines 348-350: the delay, when the frontier is not empty.
CrawlerDelay ==
    /\ crawler.pc = "delay"
    /\ crawler' = [crawler EXCEPT
                     !.pc = "loop",
                     !.log = IF DelayGuard(crawler.urls_to_visit)
                               THEN Append(@, SleepEvent) ELSE @]
    /\ UNCHANGED service
    /\ UNCHANGED <<chunker, reindex>>

\* Lines 313 and 352-358: the test of the loop fails and crawl returns.
CrawlerReturn ==
    /\ crawler.pc = "loop"
    /\ ~LoopGuard(crawler.urls_to_visit, crawler.visited_urls,
                  crawler.max_pages)
    /\ crawler' = [crawler EXCEPT !.pc = "done"]
    /\ UNCHANGED service
    /\ UNCHANGED <<chunker, reindex>>

NextCrawler ==
    \/ CrawlerBegin
    \/ CrawlerDequeue
    \/ CrawlerFetch
    \/ CrawlerLinks
    \/ CrawlerDelay
    \/ CrawlerReturn

SpecCrawler == InitCrawler /\ [][NextCrawler]_vars

\* crawl() is sequential code and every request it makes returns or raises
\* (timeout=10): a step that can be taken is taken.
SpecCrawlerFair == SpecCrawler /\ WF_vars(NextCrawler)

----------------------------------------------------------------------------
(***************************************************************************)
(* Page: WebCrawler.crawl_page (crawler.py), one call.                     *)
(*                                                                         *)
(* A document is the sequence of its elements that bear on the title, in   *)
(* the order of the document: each has its tag, the tag of the element it  *)
(* lies within, its property attribute and its text (the content attribute *)
(* of a meta element).  The elements have no class, id or style.           *)
(***************************************************************************)
NOISE_TAGS ==
    {"script", "style", "nav", "footer", "header", "aside", "form", "button",
     "iframe", "noscript", "svg", "path", "meta", "link"}

Element(tag, within, property, text) ==
    [tag |-> tag, within |-> within, property |-> property, text |-> text]

\* The elements a document may have, in the order of the document.
TitleElements == {Element("title", "head", "", t) : t \in {" ", "T"}}
OgTitle == Element("meta", "head", "og:title", "OG")
HeaderH1 == Element("h1", "header", "", "Site")
MainH1 == Element("h1", "main", "", "Post")

Documents ==
    {t \o m \o a \o b :
        t \in {<<>>} \cup {<<e>> : e \in TitleElements},
        m \in {<<>>, <<OgTitle>>},
        a \in {<<>>, <<HeaderH1>>},
        b \in {<<>>, <<MainH1>>}}

\* A str: a text, or the spelling of a URL.
Text(t) == [text |-> t, url |-> NoUrl]
Spelling(url) == [text |-> "", url |-> url]

\* str.strip() on the texts of the elements.
StripText(t) == IF t = " " THEN "" ELSE t

\* Lines 114-117: element.decompose() for every element with a noise tag,
\* which takes away what lies within the element too.
IsNoise(e) == e.tag \in NOISE_TAGS \/ e.within \in NOISE_TAGS
IsKept(e) == ~IsNoise(e)
remove_noise_elements(soup) == SelectSeq(soup, IsKept)

IsTitle(e) == e.tag = "title"
IsH1(e) == e.tag = "h1"
IsOgTitle(e) == e.tag = "meta" /\ e.property = "og:title"

\* The text of the first of the elements found, stripped; "" when none
\* was found.
FirstText(found) ==
    IF found = <<>> THEN "" ELSE StripText(found[1].text)

\* extract_title: <title>, then the first <h1>, then the og:title meta
\* element, then the URL, each read from the soup it is given.
extract_title(soup, url) ==
    LET from_title == FirstText(SelectSeq(soup, IsTitle))
        from_h1 == IF from_title # "" THEN from_title
                   ELSE FirstText(SelectSeq(soup, IsH1))
        from_og == IF from_h1 # "" THEN from_h1
                   ELSE FirstText(SelectSeq(soup, IsOgTitle))
    IN IF from_og # "" THEN Text(from_og) ELSE Spelling(url)

\* One call of crawl_page(url), before the request is made; html is the
\* document the server has for url.
PageCall(url, html) ==
    [pc |-> "get", url |-> url, html |-> html, soup |-> <<>>,
     title |-> Text(""), result |-> "none"]

InitPage ==
    /\ req = [r \in Reqs |-> NewReq]
    /\ is_crawling = FALSE
    /\ last_crawl = 0
    /\ last_result = NoneVal
    /\ collection = {}
    /\ now = 0
    /\ crawler \in {PageCall(u, d) : u \in BaseUrls, d \in Documents}
    /\ chunker = Idle
    /\ reindex = Idle

\* Lines 261-271 and 293-298: the request; it raises, or its status or
\* content type is not accepted, and crawl_page returns None; or the
\* response is parsed.
PageGet ==
    /\ crawler.pc = "get"
    /\ \/ crawler' = [crawler EXCEPT !.pc = "returned"]
       \/ crawler' = [crawler EXCEPT !.pc = "parsed", !.soup = crawler.html]
    /\ UNCHANGED service
    /\ UNCHANGED <<chunker, reindex>>

\* Line 274 and extract_text, line 144: the noise is taken out of the soup
\* itself.
PageExtractText ==
    /\ crawler.pc = "parsed"
    /\ crawler' = [crawler EXCEPT !.pc = "text",
                                  !.soup = remove_noise_elements(@)]
    /\ UNCHANGED service
    /\ UNCHANGED <<chunker, reindex>>

\* Lines 277-291: the title is read from the soup and the page is returned.
PageExtractTitle ==
    /\ crawler.pc = "text"
    /\ crawler' = [crawler EXCEPT
                     !.pc = "returned",
                     !.title = extract_title(crawler.soup, crawler.url),
                     !.result = "page"]
    /\ UNCHANGED service
    /\ UNCHANGED <<chunker, reindex>>

NextPage ==
    \/ PageGet
    \/ PageExtractText
    \/ PageExtractTitle

SpecPage == InitPage /\ [][NextPage]_vars

----------------------------------------------------------------------------
(***************************************************************************)
(* Chunker: TextProcessor.chunk_text (text_processor.py).                  *)
(*                                                                         *)
(* A text is the sequence of its characters.  The texts under study are    *)
(* made of letters and of at most one separator: the end of a sentence     *)
(* (a full stop and a space) or a newline.                                 *)
(***************************************************************************)
MaxIterations == 60     \* iterations of the loop of chunk_text that are run

\* The two length tests of chunk_text made against a fifth of the length.
MinChunkLen_Fifth == 50 \div 5

\* The 50 of the two length tests of chunk_text: a text shorter than this is
\* not chunked, and a chunk is kept when it is longer than this.
MinChunkLen == 50

ChunkSizes == {10, 101}
ChunkOverlaps == {0, 3, 7, 60}
TextLens == {0, 1, 49, 50, 51, 58, 130, 150}
Separators == {".", "\n"}

\* The text of n characters with the separator sep at the 0-based position q
\* (no separator when q is -1).
TextOf(n, q, sep) ==
    [k \in 1..n |->
        IF q >= 0 /\ k = q + 1 THEN sep
        ELSE IF q >= 0 /\ sep = "." /\ k = q + 2 THEN " "
        ELSE "a"]

Texts ==
    {TextOf(n, -1, ".") : n \in TextLens}
      \cup UNION {{TextOf(n, q, sep) : q \in 0..(n - 1), sep \in Separators} :
                    n \in TextLens}

SetMax(S) == CHOOSE x \in S : \A y \in S : y <= x

\* s.rfind(sub): the highest 0-based position at which sub starts in s, or -1.
RFind(s, sub) ==
    SetMax({-1} \cup {k \in 0..(Len(s) - Len(sub)) :
                          SubSeq(s, k + 1, k + Len(sub)) = sub})

\* s.strip()
IsSpace(c) == c \in {" ", "\n", "\t"}
strip(s) ==
    LET inked == {k \in 1..Len(s) : ~IsSpace(s[k])} IN
    IF inked = {} THEN <<>>
    ELSE SubSeq(s, CHOOSE a \in inked : \A b \in inked : a <= b, SetMax(inked))

\* Lines 131-139: the position of the last end of a sentence in the window,
\* and failing that of the last newline.
LastSentence(window) ==
    LET last_sentence == SetMax({RFind(window, <<".", " ">>),
                                 RFind(window, <<"!", " ">>),
                                 RFind(window, <<"?", " ">>)})
    IN IF last_sentence = -1 THEN RFind(window, <<"\n">>) ELSE last_sentence

\* Lines 123-143: the end of the window that starts at start.
WindowEnd(text, start, chunk_size) ==
    LET end == Min(start + chunk_size, Len(text)) IN
    IF end < Len(text)
      THEN LET last_sentence == LastSentence(Slice(text, start, end)) IN
           IF last_sentence # -1 /\ last_sentence > chunk_size \div 2
             THEN start + last_sentence + 1
             ELSE end
      ELSE end

\* if not text or len(text) < 50: return chunks
TooShort(text) == text = <<>> \/ Len(text) < MinChunkLen

\* if chunk and len(chunk) > 50: chunks.append(chunk)
KeepChunk(chunk) == chunk # <<>> /\ Len(chunk) > MinChunkLen

\* The next window starts one character after the end of this one.
NextStart_Gap(end, chunk_overlap) == end + 1

\* Lines 156-160: start = end - self.chunk_overlap; if start < 0: start = end
NextStart(end, chunk_overlap) ==
    IF end - chunk_overlap < 0 THEN end ELSE end - chunk_overlap

\* TextProcessor(chunk_size, chunk_overlap), and the argument of chunk_text.
TextProcessor(chunk_size, chunk_overlap, text) ==
    [pc |-> "start", chunk_size |-> chunk_size,
     chunk_overlap |-> chunk_overlap, text |-> text,
     \* locals of chunk_text
     chunks |-> <<>>, start |-> 0,
     \* history: the windows taken and the start of the window before
     windows |-> <<>>, prev_start |-> -1]

InitChunker ==
    /\ req = [r \in Reqs |-> NewReq]
    /\ is_crawling = FALSE
    /\ last_crawl = 0
    /\ last_result = NoneVal
    /\ collection = {}
    /\ now = 0
    /\ crawler = Idle
    /\ chunker \in {TextProcessor(n, v, t) :
                      n \in ChunkSizes, v \in ChunkOverlaps, t \in Texts}
    /\ reindex = Idle

\* Lines 113-119: no chunk for a text that is empty or too short.
ChunkBegin ==
    /\ chunker.pc = "start"
    /\ chunker' = [chunker EXCEPT
                     !.pc = IF TooShort(chunker.text) THEN "done" ELSE "loop",
                     !.start = 0]
    /\ UNCHANGED service
    /\ UNCHANGED <<crawler, reindex>>

\* Lines 121-162: one iteration of the loop.
ChunkStep ==
    /\ chunker.pc = "loop"
    /\ Len(chunker.windows) < MaxIterations
    /\ LET text == chunker.text
           start == chunker.start
           end == WindowEnd(text, start, chunker.chunk_size)
           chunk == strip(Slice(text, start, end))
           taken == [chunker EXCEPT
                       !.chunks = IF KeepChunk(chunk) THEN Append(@, chunk)
                                  ELSE @,
                       !.windows = Append(@, [from |-> start, to |-> end,
                                              kept |-> KeepChunk(chunk)]),
                       !.prev_start = start]
       IN
       IF ~(start < Len(text)) \/ end >= Len(text)
         THEN chunker' = [(IF start < Len(text) THEN taken ELSE chunker)
                             EXCEPT !.pc = "done"]
         ELSE chunker' = [taken EXCEPT
                            !.start = NextStart(end, chunker.chunk_overlap)]
    /\ UNCHANGED service
    /\ UNCHANGED <<crawler, reindex>>

NextChunker ==
    \/ ChunkBegin
    \/ ChunkStep

SpecChunker == InitChunker /\ [][NextChunker]_vars

----------------------------------------------------------------------------
(***************************************************************************)
(* Vector store on its own: clear_collection followed by add_documents,    *)
(* done twice with the same list of chunks (vector_store.py).              *)
(***************************************************************************)
\* The lists of chunks process_documents gives for the pages of a crawl.
ChunkLists ==
    UNION {{process_documents(pages, counts) :
              pages \in InjSeqs(Urls, n),
              counts \in [1..n -> 0..MaxChunksPerPage]} :
           n \in 1..Cardinality(Urls)}

\* What the collection can hold before: nothing, or an earlier ingestion.
StaleCollections ==
    {{}} \cup {{Vector(l[k], 0) : k \in 1..Len(l)} : l \in ChunkLists}

\* The loop of add_documents goes on from where the call before ended.
RangeStart_Stale(i) == i

\* for i in range(0, total_chunks, batch_size): the first value of i.
RangeStart(i) == 0

InitReindex ==
    /\ req = [r \in Reqs |-> NewReq]
    /\ is_crawling = FALSE
    /\ last_crawl = 0
    /\ last_result = NoneVal
    /\ collection \in StaleCollections
    /\ now = 0
    /\ crawler = Idle
    /\ chunker = Idle
    /\ reindex \in {[pc |-> "clear", chunks |-> l, run |-> 1, i |-> 0,
                     counts |-> <<>>,
                     before |-> get_collection_count(c)] :
                        l \in ChunkLists, c \in {collection}}

\* The end of one run: the count of the index is read, and the second run
\* follows the first.
EndOfRun(q, coll) ==
    [q EXCEPT !.counts = Append(@, get_collection_count(coll)),
              !.run = IF q.run = 1 THEN 2 ELSE @,
              !.pc = IF q.run = 1 THEN "clear" ELSE "done"]

\* clear_collection(); the deletion or the re-creation can raise.
ReindexClear ==
    /\ reindex.pc = "clear"
    /\ \/ /\ collection' = clear_collection(collection)
          /\ reindex' = [reindex EXCEPT !.pc = "add"]
       \/ /\ collection' \in {collection, clear_collection(collection)}
          /\ reindex' = [reindex EXCEPT !.pc = "failed"]
    /\ UNCHANGED <<req, is_crawling, last_crawl, last_result, now>>
    /\ UNCHANGED <<crawler, chunker>>

\* add_documents, lines 116-133: nothing to do for an empty list; otherwise
\* the loop over the batches starts.
ReindexAdd ==
    /\ reindex.pc = "add"
    /\ IF reindex.chunks = <<>>
         THEN reindex' = EndOfRun(reindex, collection)
         ELSE reindex' = [reindex EXCEPT !.i = RangeStart(@),
                                         !.pc = "batch"]
    /\ UNCHANGED service
    /\ UNCHANGED <<crawler, chunker>>

\* add_documents, lines 133-182: one batch is embedded and added, or the
\* exception of the batch is raised; after the last batch the run ends.
ReindexBatch ==
    /\ reindex.pc = "batch"
    /\ LET i == reindex.i
           batch == Slice(reindex.chunks, i, i + BatchSize)
       IN
       IF i >= Len(reindex.chunks)
         THEN /\ reindex' = EndOfRun(reindex, collection)
              /\ UNCHANGED collection
         ELSE \/ /\ collection' = CollectionAdd(collection, batch,
                                                reindex.run)
                 /\ reindex' = [reindex EXCEPT !.i = i + BatchSize]
              \/ /\ BatchErrorPropagates
                 /\ reindex' = [reindex EXCEPT !.pc = "failed"]
                 /\ UNCHANGED collection
    /\ UNCHANGED <<req, is_crawling, last_crawl, last_result, now>>
    /\ UNCHANGED <<crawler, chunker>>

NextReindex ==
    \/ ReindexClear
    \/ ReindexAdd
    \/ ReindexBatch

SpecReindex == InitReindex /\ [][NextReindex]_vars

----------------------------------------------------------------------------
(***************************************************************************)
(* Properties of the service facade and of the answer generator.           *)
(***************************************************************************)

C2_SecondIsRejected ==
    \A r \in Reqs :
        (req[r].kind = "crawl" /\ req[r].duringFlight) =>
            /\ req[r].pc \in {"pending", "done"}
            /\ req[r].pc = "done" =>
                  (req[r].status = 409 /\ req[r].trace = <<>>)

\* C3: when no ingestion is running is_crawling is false; in particular it
\* is false once an accepted POST /crawl has finished, on any exit path.
C3_FlagReleased ==
    /\ InFlight = {} => ~is_crawling
    /\ \A r \in Reqs :
         (req[r].kind = "crawl" /\ req[r].pc = "done" /\ Running = {})
            => ~is_crawling

\* An accepted ingestion has finished by the exception of a failed batch,
\* after its clear, and the flag is down.
C3_Witness ==
    /\ ~is_crawling
    /\ \E r \in Reqs :
        /\ req[r].kind = "crawl"
        /\ req[r].pc = "done"
        /\ req[r].exit = "exception"
        /\ req[r].raisedIn = "upsert"

\* C4: POST /ask is served while an ingestion is in flight: whenever an
\* ingestion is between its clear and the end of its upsert and a question
\* is waiting, the handler of the question can run.
C4_AskServedDuringIngestion ==
    \A r, a \in Reqs :
        (/\ req[r].pc = "upsert"
         /\ req[a].kind = "ask"
         /\ req[a].pc = "pending") => CanDispatch

\* C5: within one accepted ingestion the stages happen in the order crawl,
\* processDocuments, clear, upsert, before the response: no clear before
\* crawl and chunking have finished, no upsert without an earlier clear.
C5_StageOrder ==
    \A r \in Reqs :
        LET t == req[r].trace IN
        /\ \A k \in 1..Len(t) :
             /\ t[k] = "crawl" => k = 1
             /\ t[k] = "chunk" => (k = 2 /\ t[1] = "crawl")
             /\ t[k] = "clear" =>
                    (k = 3 /\ t[1] = "crawl" /\ t[2] = "chunk")
             /\ t[k] = "upsert" => (k > 3 /\ t[3] = "clear")
        /\ (req[r].exit = "success" /\ req[r].chunks # <<>>) =>
             (Len(t) > 3 /\ t[Len(t)] = "upsert")

\* An ingestion has succeeded after crawl, chunking, clear and two batches.
C5_Witness ==
    \E r \in Reqs :
        /\ req[r].exit = "success"
        /\ req[r].trace = <<"crawl", "chunk", "clear", "upsert", "upsert">>

\* C6: if batch k fails during upsert, no later batch is embedded or
\* inserted, the ingestion answers 500, and the index holds exactly the
\* batches before k: nothing is rolled back and nothing that the clear
\* removed comes back.
C6_BatchFailureAborts ==
    \A r \in Reqs :
        LET k == req[r].failedBatch IN
        k > 0 =>
            /\ req[r].pc = "done"
            /\ req[r].status = 500
            /\ req[r].exit = "exception"
            /\ req[r].inserted = k - 1
            /\ req[r].embedded \in {k - 1, k}
            /\ collection =
                 {Vector(req[r].chunks[j], req[r].start) :
                    j \in 1..Min((k - 1) * BatchSize, Len(req[r].chunks))}

\* The second batch of an ingestion has failed after an earlier ingestion
\* had succeeded: the first batch is in the index.
C6_Witness ==
    \E r \in Reqs :
        /\ last_result # NoneVal
        /\ req[r].failedBatch = 2
        /\ req[r].status = 500
        /\ collection # {}

\* C7: a POST /ask handled while the index count is 0 is rejected with 503
\* and the answer generator is not invoked: no query embedding, no index
\* query, no language-model call.
C7_AskOnEmptyIndex ==
    \A r \in Reqs :
        (req[r].kind = "ask" /\ req[r].emptyAtCheck) =>
            /\ req[r].pc = "done"
            /\ req[r].status = 503
            /\ req[r].exit = "empty_kb"
            /\ req[r].calls = {}
            /\ req[r].result = NoResult

\* A question has been rejected before any ingestion has succeeded.
C7_Witness ==
    \E r \in Reqs :
        /\ req[r].kind = "ask"
        /\ req[r].emptyAtCheck
        /\ req[r].status = 503
        /\ req[r].calls = {}
        /\ last_result = NoneVal

\* C8: whenever retrieval returns zero results, generate_answer returns
\* success=false, the fixed no-information answer and no sources, and the
\* language model is not called.
C8_NoResultsShortCircuit ==
    \A r \in Reqs :
        ("embed" \in req[r].calls /\ req[r].retrieval.count = 0) =>
            /\ req[r].pc = "done"
            /\ req[r].status = 200
            /\ ~req[r].success
            /\ req[r].result = NoInfoResult
            /\ "llm" \notin req[r].calls

\* A question on a non-empty index has been answered after a retrieval
\* without results.
C8_Witness ==
    \E r \in Reqs :
        /\ req[r].kind = "ask"
        /\ req[r].pc = "done"
        /\ "embed" \in req[r].calls
        /\ collection # {}
        /\ req[r].retrieval.count = 0
        /\ req[r].result = NoInfoResult

\* C9: generate_answer never raises, and an exception thrown during
\* retrieval, prompt construction or the language-model call yields
\* success=false with the exception's message in the answer text.
C9_ErrorInAnswer ==
    \A r \in Reqs :
        (req[r].kind = "ask" /\ req[r].raised # NoErr) =>
            /\ req[r].pc = "done"
            /\ req[r].status = 200
            /\ ~req[r].result.success
            /\ req[r].result.answer = [kind |-> "error", msg |-> req[r].raised]

\* The position of the first item of items with the given URL.
FirstIndex(items, url) ==
    CHOOSE k \in 1..Len(items) :
        /\ items[k].url = url
        /\ \A j \in 1..(k - 1) : items[j].url # url

\* C10: on a successful generate_answer, sources has exactly one entry per
\* distinct URL of the retrieved chunks, in the order of the first
\* occurrences, each with the similarity of that first occurrence; so there
\* are never more sources than retrieved chunks.
C10_SourcesDeduplicated ==
    \A r \in Reqs :
        LET items == req[r].retrieval.items
            src == req[r].result.sources
        IN
        req[r].result.success =>
            /\ {src[a].url : a \in 1..Len(src)}
                  = {items[k].url : k \in 1..Len(items)}
            /\ \A a, b \in 1..Len(src) : a # b => src[a].url # src[b].url
            /\ \A a, b \in 1..Len(src) :
                  a < b => FirstIndex(items, src[a].url)
                              < FirstIndex(items, src[b].url)
            /\ \A a \in 1..Len(src) :
                  LET f == FirstIndex(items, src[a].url) IN
                  /\ src[a].relevance_score = items[f].similarity
                  /\ src[a].chunk_id = items[f].chunk_id
            /\ Len(src) <= Len(items)
            /\ req[r].result.num_chunks_used = Len(items)

\* Three chunks of two pages were retrieved, the first and the third from
\* the same page with different similarities: two sources.
C10_Witness ==
    \E r \in Reqs :
        LET items == req[r].retrieval.items IN
        /\ req[r].result.success
        /\ Len(items) = 3
        /\ items[1].url = items[3].url
        /\ items[1].url # items[2].url
        /\ items[1].similarity # items[3].similarity
        /\ Len(req[r].result.sources) = 2

----------------------------------------------------------------------------
(***************************************************************************)
(* Properties of the crawler.                                              *)
(***************************************************************************)
\* The URLs that have been requested, and the requests made for one URL.
FetchedUrls == {crawler.log[k].url :
                  k \in {j \in 1..Len(crawler.log) :
                            crawler.log[j].ev = "fetch"}}
FetchCount(url) ==
    Cardinality({k \in 1..Len(crawler.log) :
                    crawler.log[k] = FetchEvent(url)})

\* C11: in every state of crawl(), at most max_pages URLs are visited; a URL
\* is dequeued and fetched only while fewer than max_pages are visited;
\* every fetched URL, failed and too short ones included, is counted as
\* visited; and there are no more collected pages than visited URLs.
C11_PageBudget ==
    crawler.pc # "idle" =>
        /\ Cardinality(crawler.visited_urls) <= crawler.max_pages
        /\ crawler.dequeuedAt < crawler.max_pages
        /\ FetchedUrls \subseteq crawler.visited_urls
        /\ Cardinality(FetchedUrls) <= crawler.max_pages
        /\ Len(crawler.pages_data) <= Cardinality(crawler.visited_urls)

\* A crawl has returned because the budget of two pages was used, one of
\* them by a page whose request failed, while the frontier was not empty.
C11_Witness ==
    /\ crawler.pc = "done"
    /\ crawler.max_pages = 2
    /\ Cardinality(crawler.visited_urls) = 2
    /\ crawler.failed # {}
    /\ Len(crawler.pages_data) = 1
    /\ crawler.urls_to_visit # <<>>

\* C12: when the request of a URL fails, the page is not collected, the URL
\* stays visited and is not requested again, no exception leaves crawl(),
\* and crawl() ends only when the test of its loop fails.
C12_FetchFailure ==
    crawler.pc # "idle" =>
        /\ \A u \in crawler.failed :
             /\ u \in crawler.visited_urls
             /\ \A k \in 1..Len(crawler.pages_data) :
                    crawler.pages_data[k].url # u
             /\ FetchCount(u) = 1
        /\ ~crawler.raised
        /\ crawler.pc = "done" =>
             ~LoopGuard(crawler.urls_to_visit, crawler.visited_urls,
                        crawler.max_pages)

\* A request has failed and, after it, another URL of the frontier has been
\* requested and collected.
C12_Witness ==
    /\ crawler.pc = "done"
    /\ \E k, j \in 1..Len(crawler.log) :
         /\ k < j
         /\ crawler.log[k].url \in crawler.failed
         /\ crawler.log[j].ev = "fetch"
         /\ crawler.log[j].url \notin crawler.failed
         /\ \E a \in 1..Len(crawler.pages_data) :
                crawler.pages_data[a].url = crawler.log[j].url

\* The links that the last collected page added to the frontier.
Added == SubSeq(crawler.urls_to_visit, Len(crawler.before) + 1,
                Len(crawler.urls_to_visit))

\* The canonical forms of the links of the page that lead to a page of the
\* crawled domain (not to a file that is skipped).
SameDomainTargets(hrefs, domain) ==
    {[h.url EXCEPT !.slash = FALSE, !.frag = ""] :
        h \in {g \in hrefs : /\ g.prefix = ""
                             /\ g.url.scheme = "https"
                             /\ g.url.netloc = domain
                             /\ g.url.path \notin BinaryPaths}}

\* C13: the frontier receives from a collected page exactly its same-domain
\* links that are neither visited nor queued, each once and in its form
\* without trailing slash and fragment, and none of the targets of its
\* other-domain, mailto: and fragment-only links.
C13_LinkFiltering ==
    crawler.linksOf # NoUrl =>
        /\ crawler.urls_to_visit = crawler.before \o Added
        /\ Elems(Added) =
             SameDomainTargets(crawler.hrefs, crawler.domain)
                \ (crawler.visited_urls \cup Elems(crawler.before))
        /\ \A a, b \in 1..Len(Added) : a # b => Added[a] # Added[b]
        /\ \A a \in 1..Len(Added) :
             /\ Added[a].netloc = crawler.domain
             /\ Added[a].scheme = "https"
             /\ ~Added[a].slash
             /\ Added[a].frag = ""
             /\ Added[a] # crawler.linksOf

\* The page has a link to another domain, a mailto: link, a fragment-only
\* link and two same-domain links that differ by the trailing slash only:
\* the one canonical form of the two is the only URL the frontier receives.
C13_Witness ==
    /\ crawler.linksOf # NoUrl
    /\ crawler.hrefs =
         { Href("", Url("https", "other", "a", FALSE, "")),
           Href("mailto:", Url("mailto", "", "x", FALSE, "")),
           Href("#", NoUrl),
           Href("", Url("https", "site", "a", FALSE, "")),
           Href("", Url("https", "site", "a", TRUE, "")) }
    /\ Added = <<Url("https", "site", "a", FALSE, "")>>

\* C22: the links of a kept page enter the frontier in the order in which
\* the page has them, so that the order of the visits and the pages that are
\* collected are decided by the site and max_pages alone.
C22_DiscoveryOrder ==
    crawler.linksOf # NoUrl =>
        InDiscoveryOrder(Added, crawler.hrefs, crawler.linksOf)

\* C23: the title of a fetched page is the text of its <title>, failing
\* that of its first <h1>, failing that the content of its og:title meta
\* element, failing that the URL; a page with an og:title element and
\* neither <title> nor <h1> has the og:title content as its title.
C23_TitlePrecedence ==
    (crawler.pc = "returned" /\ crawler.result = "page") =>
        /\ crawler.title = extract_title(crawler.html, crawler.url)
        /\ (/\ SelectSeq(crawler.html, IsTitle) = <<>>
            /\ SelectSeq(crawler.html, IsH1) = <<>>
            /\ SelectSeq(crawler.html, IsOgTitle) # <<>>)
              => crawler.title = Text(OgTitle.text)

\* The URLs of the pages that crawl has collected.
CollectedUrls == {crawler.pages_data[k].url : k \in 1..Len(crawler.pages_data)}

\* C26: a fetched page is collected if and only if its text is longer than
\* 100 characters, and only a collected page is requested for its links
\* and adds to the frontier: no link of a failed or too short page is
\* followed.
C26_KeptPagesOnly ==
    /\ [](crawler.pc \in {"links", "delay"} =>
            /\ crawler.url \in CollectedUrls
                  <=> (crawler.url \notin crawler.failed
                         /\ crawler.content_length > 100)
            /\ crawler.pc = "links" => crawler.url \in CollectedUrls
            /\ crawler.linksOf # NoUrl =>
                  (crawler.linksOf = crawler.url
                     /\ crawler.url \in CollectedUrls))
    /\ [](\A u \in FetchedUrls : FetchCount(u) > 1 => u \in CollectedUrls)
    /\ [][(crawler.pc \notin {"idle", "start"}
             /\ Len(crawler'.urls_to_visit) > Len(crawler.urls_to_visit))
            => (/\ crawler.pc = "links"
                /\ crawler.content_length > 100
                /\ crawler.url \in CollectedUrls)]_vars

\* Of three pages the first was collected and gave two links; the second
\* had a text of exactly 100 characters and the third failed, and neither
\* was collected or added to the frontier.
C26_Witness ==
    /\ crawler.pc = "done"
    /\ Len(crawler.crawled) = 3
    /\ Len(crawler.pages_data) = 1
    /\ crawler.pages_crawled = 2
    /\ Cardinality(crawler.failed) = 1
    /\ crawler.urls_to_visit = <<>>
    /\ crawler.content_length = -1
    /\ FetchCount(crawler.crawled[1]) = 2
    /\ FetchCount(crawler.crawled[2]) = 1
    /\ FetchCount(crawler.crawled[3]) = 1

\* C27: at the head of every iteration of the loop of crawl the frontier has
\* no visited URL and no URL twice; hence no dequeued URL is skipped as
\* already visited and no URL is passed to crawl_page twice.
C27_FrontierFresh ==
    (crawler.pc \notin {"idle", "start"}) =>
        /\ crawler.pc = "loop" =>
             /\ Elems(crawler.urls_to_visit) \cap crawler.visited_urls = {}
             /\ \A a, b \in 1..Len(crawler.urls_to_visit) :
                  a # b => crawler.urls_to_visit[a] # crawler.urls_to_visit[b]
        /\ ~crawler.skipped
        /\ \A a, b \in 1..Len(crawler.crawled) :
             a # b => crawler.crawled[a] # crawler.crawled[b]

\* At the head of the loop after the second page: that page has a link to
\* a URL the frontier had already, and the frontier has it once.
C27_Witness ==
    /\ crawler.pc = "loop"
    /\ Len(crawler.crawled) = 2
    /\ crawler.linksOf = crawler.crawled[2]
    /\ crawler.before # <<>>
    /\ \E h \in crawler.hrefs :
         /\ h.prefix \notin SkippedPrefixes
         /\ LinkOf(h, crawler.linksOf) \in Elems(crawler.before)
    /\ crawler.urls_to_visit = crawler.before

\* A URL is in canonical form: no fragment, no trailing slash.
IsCanonical(url) == ~url.slash /\ url.frag = ""

\* C30: every URL that crawl() puts in visited or in the frontier, the base
\* URL too, is in canonical form, so that no page is visited or collected
\* under two spellings that differ by a trailing slash only.
C30_CanonicalUrls ==
    (crawler.pc \notin {"idle", "start"}) =>
        /\ \A u \in crawler.visited_urls \cup Elems(crawler.urls_to_visit) :
             IsCanonical(u)
        /\ \A u, v \in crawler.visited_urls :
             RStripSlash(u) = RStripSlash(v) => u = v
        /\ \A u, v \in CollectedUrls :
             RStripSlash(u) = RStripSlash(v) => u = v

\* One iteration of the loop of crawl has begun: a URL has left the
\* frontier and has become visited, or has left it and nothing was added.
IterationBegins ==
    /\ crawler.pc = "loop"
    /\ crawler'.pc \in {"loop", "fetch"}
    /\ Len(crawler'.urls_to_visit) = Len(crawler.urls_to_visit) - 1
    /\ \/ /\ crawler'.visited_urls # crawler.visited_urls
          /\ crawler.visited_urls \subseteq crawler'.visited_urls
       \/ crawler'.visited_urls = crawler.visited_urls

\* C21: crawl() terminates: every iteration of its loop adds a URL to
\* visited or removes an entry of the frontier without adding any, and
\* crawl() returns, once, exactly when the frontier is empty or max_pages
\* URLs are visited.
C21_CrawlTerminates ==
    /\ [][(crawler.pc = "loop" /\ crawler'.pc # "done") => IterationBegins]_vars
    /\ [][crawler.pc = "done" => crawler'.pc = "done"]_vars
    /\ [](crawler.pc = "done" =>
            (crawler.urls_to_visit = <<>>
               \/ Cardinality(crawler.visited_urls) >= crawler.max_pages))
    /\ [](crawler.pc = "loop" =>
            (ENABLED CrawlerReturn <=>
               (crawler.urls_to_visit = <<>>
                  \/ Cardinality(crawler.visited_urls) >= crawler.max_pages)))
    /\ <>(crawler.pc = "done")

\* crawl() has returned with an empty frontier after three pages, of which
\* the last was too short to be kept.
C21_Witness ==
    /\ crawler.pc = "done"
    /\ crawler.urls_to_visit = <<>>
    /\ Cardinality(crawler.visited_urls) = 3
    /\ crawler.content_length = MinContent
    /\ Len(crawler.pages_data) = 2

\* C14: between any two consecutive HTTP requests of a crawl the delay is
\* observed, and no delay is observed after the last page, whether the loop
\* ends on an empty frontier or on the page budget.
C14_DelayBetweenFetches ==
    crawler.pc # "idle" =>
        /\ \A k \in 1..(Len(crawler.log) - 1) :
             ~(crawler.log[k].ev = "fetch" /\ crawler.log[k + 1].ev = "fetch")
        /\ crawler.pc = "done" =>
             (crawler.log = <<>>
                \/ crawler.log[Len(crawler.log)].ev # "sleep")

----------------------------------------------------------------------------
(***************************************************************************)
(* Properties of the chunker.                                              *)
(***************************************************************************)

\* C15: for 0 <= overlap < chunk_size the start of the window is strictly
\* higher in each iteration than in the one before, so that chunk_text never
\* takes the same window twice.
C15_ForwardProgress ==
    (chunker.pc # "idle" /\ chunker.chunk_overlap < chunker.chunk_size) =>
        /\ \A a, b \in 1..Len(chunker.windows) :
             a < b => chunker.windows[a].from < chunker.windows[b].from
        /\ (chunker.pc = "loop" /\ chunker.windows # <<>>) =>
             chunker.start > chunker.prev_start

\* C16: for a text of fewer than 50 characters chunk_text returns no chunk,
\* whatever chunk_size and chunk_overlap are.
C16_ShortTextNoChunks ==
    (chunker.pc # "idle" /\ Len(chunker.text) < 50) =>
        /\ chunker.chunks = <<>>
        /\ chunker.pc \in {"start", "done"}

\* chunk_text has returned nothing for a text of 49 characters that has a
\* sentence end in it.
C16_Witness ==
    /\ chunker.pc = "done"
    /\ Len(chunker.text) = 49
    /\ \E k \in 1..49 : chunker.text[k] = "."
    /\ chunker.chunks = <<>>

\* The chunks without the overlap at the end of those that are not the last
\* one, put together.
DropTail(s, n) == SubSeq(s, 1, Len(s) - n)

RECURSIVE Rejoin(_, _)
Rejoin(chunks, chunk_overlap) ==
    IF chunks = <<>> THEN <<>>
    ELSE IF Len(chunks) = 1 THEN chunks[1]
    ELSE DropTail(Head(chunks), chunk_overlap)
            \o Rejoin(Tail(chunks), chunk_overlap)

IsSliceOf(chunk, text) ==
    \E k \in 0..Len(text) : Slice(text, k, k + Len(chunk)) = chunk

\* The texts of the windows that were kept, in the order of the windows.
RECURSIVE KeptTexts(_, _)
KeptTexts(windows, text) ==
    IF windows = <<>> THEN <<>>
    ELSE (IF Head(windows).kept
            THEN <<strip(Slice(text, Head(windows).from, Head(windows).to))>>
            ELSE <<>>)
         \o KeptTexts(Tail(windows), text)

\* C17 (as claimed): for overlap < chunk_size and chunk_size > 100, the
\* chunks without their trailing overlap, put together, are the text: every
\* chunk is a contiguous slice of it and no character is missing.
C17_Reconstruction ==
    (/\ chunker.pc = "done"
     /\ chunker.chunk_overlap < chunker.chunk_size
     /\ chunker.chunk_size > 100) =>
        /\ \A k \in 1..Len(chunker.chunks) :
             IsSliceOf(chunker.chunks[k], chunker.text)
        /\ Rejoin(chunker.chunks, chunker.chunk_overlap) = chunker.text

\* C17 (amended): for overlap < chunk_size and chunk_size > 100, the windows
\* are slices of at most chunk_size characters, the first starts at 0, each
\* starts no later than the one before ends and, when chunk_text returns
\* from its loop, the last ends with the text; the chunks are the stripped
\* texts of the windows that give more than 50 characters, in order.
C17_WindowsCoverText ==
    (/\ chunker.pc # "idle"
     /\ chunker.chunk_overlap < chunker.chunk_size
     /\ chunker.chunk_size > 100) =>
        LET w == chunker.windows IN
        /\ \A k \in 1..Len(w) :
             /\ 0 <= w[k].from
             /\ w[k].from < w[k].to
             /\ w[k].to <= Len(chunker.text)
             /\ w[k].to - w[k].from <= chunker.chunk_size
             /\ k = 1 => w[k].from = 0
             /\ k > 1 => w[k].from <= w[k - 1].to
        /\ (chunker.pc = "done" /\ w # <<>>) =>
             w[Len(w)].to = Len(chunker.text)
        /\ (chunker.pc = "loop" /\ w # <<>>) =>
             chunker.start <= w[Len(w)].to
        /\ chunker.chunks = KeptTexts(w, chunker.text)
        /\ \A k \in 1..Len(chunker.chunks) :
             /\ Len(chunker.chunks[k]) > 50
             /\ IsSliceOf(chunker.chunks[k], chunker.text)

\* chunk_text has returned for a text of 130 characters and a chunk_size of
\* 101: the second window, the last 29 characters, gave no chunk, and the
\* chunks put together are not the text.
C17_Witness ==
    /\ chunker.pc = "done"
    /\ chunker.chunk_size > 100
    /\ chunker.chunk_overlap < chunker.chunk_size
    /\ Len(chunker.text) = 130
    /\ Len(chunker.windows) = 2
    /\ ~chunker.windows[2].kept
    /\ Len(chunker.chunks) = 1
    /\ Rejoin(chunker.chunks, chunker.chunk_overlap) # chunker.text

\* C24: for chunk_overlap >= chunk_size chunk_text still terminates: each
\* window starts where the one before it ended, so that the windows do not
\* overlap and there are no more of them than the text has characters.
C24_GuardForcesProgress ==
    (chunker.pc # "idle" /\ chunker.chunk_overlap >= chunker.chunk_size) =>
        /\ \A a \in 1..(Len(chunker.windows) - 1) :
             chunker.windows[a + 1].from = chunker.windows[a].to
        /\ (chunker.pc = "loop" /\ chunker.windows # <<>>) =>
             chunker.start = chunker.windows[Len(chunker.windows)].to
        /\ Len(chunker.windows) <= Len(chunker.text)

\* C25: chunk_text drops a slice exactly when it has fewer than 50
\* characters: a slice of 50 characters or more is a chunk, a text of
\* exactly 50 characters gives one chunk, and every chunk has at least 50
\* and at most chunk_size characters.
C25_MinimumChunkRule ==
    chunker.pc # "idle" =>
        /\ \A a \in 1..Len(chunker.windows) :
             chunker.windows[a].kept <=>
                Len(strip(Slice(chunker.text, chunker.windows[a].from,
                                chunker.windows[a].to))) >= 50
        /\ \A k \in 1..Len(chunker.chunks) :
             /\ Len(chunker.chunks[k]) >= 50
             /\ Len(chunker.chunks[k]) <= chunker.chunk_size
        /\ (/\ chunker.pc = "done"
            /\ Len(chunker.text) = 50
            /\ strip(chunker.text) = chunker.text
            /\ chunker.chunk_size >= 50) => Len(chunker.chunks) = 1

----------------------------------------------------------------------------
(***************************************************************************)
(* Properties of the text processor's stamping, of the vector store and   *)
(* of the reported status.                                                 *)
(***************************************************************************)
\* The positions of the chunks of one page in a list of chunks.
ChunksOf(chunks, url) == {k \in 1..Len(chunks) : chunks[k].url = url}

C20_LastOutcomeReported ==
    \A r \in Reqs :
        (/\ req[r].kind = "crawl"
         /\ req[r].pc = "done"
         /\ req[r].exit \in {"success", "no_pages", "no_chunks",
                             "exception"}) =>
            /\ get_crawl_status.last_crawl_time = req[r].start
            /\ get_stats.last_crawl = get_crawl_status.last_result
            /\ req[r].exit = "success" =>
                 get_stats.last_crawl =
                    [pages_crawled |-> Len(req[r].pages_data),
                     chunks_created |-> Len(req[r].chunks),
                     embeddings_generated |-> Len(req[r].chunks)]

\* C28: an ingestion that ends because the crawl gave no page or the
\* chunking gave no chunk leaves the index as it was when the request
\* began, neither clear_collection nor add_documents having run, and
\* answers 200 with success = false.
C28_EarlyReturnKeepsIndex ==
    \A r \in Reqs :
        req[r].exit \in {"no_pages", "no_chunks"} =>
            /\ collection = req[r].indexBefore
            /\ \A k \in 1..Len(req[r].trace) :
                 req[r].trace[k] \notin {"clear", "upsert"}
            /\ req[r].pc = "done"
            /\ req[r].status = 200
            /\ ~req[r].success

\* An ingestion has ended for want of chunks while the index held the
\* vectors of an earlier ingestion, which it still holds.
C28_Witness ==
    \E r \in Reqs :
        /\ req[r].exit = "no_chunks"
        /\ req[r].pages_data # <<>>
        /\ collection # {}
        /\ collection = req[r].indexBefore

\* C29: after a successful ingestion response the index holds the chunks of
\* that ingestion, one vector for each, and none of an earlier ingestion:
\* its count is the chunks_created and embeddings_generated of the
\* response, the ids of the chunks being pairwise distinct.
C29_IndexIsThisIngestion ==
    \A r \in Reqs :
        (req[r].pc = "done" /\ req[r].exit = "success") =>
            LET chunks == req[r].chunks IN
            /\ collection = {Vector(chunks[k], req[r].start) :
                                k \in 1..Len(chunks)}
            /\ \A a, b \in 1..Len(chunks) :
                 a # b => ChunkId(chunks[a]) # ChunkId(chunks[b])
            /\ get_collection_count(collection) = Len(chunks)
            /\ last_result.chunks_created = get_collection_count(collection)
            /\ last_result.embeddings_generated
                  = get_collection_count(collection)

\* A successful ingestion of one page in two chunks has replaced an index
\* that held three vectors, one of them of the same page.
C29_Witness ==
    \E r \in Reqs :
        /\ req[r].pc = "done"
        /\ req[r].exit = "success"
        /\ Cardinality(req[r].indexBefore) = 3
        /\ Len(req[r].pages_data) = 1
        /\ Len(req[r].chunks) = 2
        /\ \E v \in req[r].indexBefore : v.url = req[r].pages_data[1]
        /\ get_collection_count(collection) = 2

====
